---- MODULE Spec2Model ----
(***************************************************************************)
(* Model of the unsubscribe resolver of src/unsubscribe.py.                *)
(*                                                                         *)
(* A Python str is modelled as a sequence of tokens.  A token is an atomic *)
(* piece of text ("<", " ", "https://ex.com/u/1", "Opt-Out").  The string  *)
(* operations of the code (strip, startswith, lower, upper, the `in` test, *)
(* the regular expressions) are defined on these sequences.  Python's None *)
(* is the distinguished value None.                                        *)
(***************************************************************************)
EXTENDS Integers, Sequences, FiniteSets, TLC

(***************************************************************************)
(* Bounds of the model.                                                    *)
(***************************************************************************)
\* Number of entries a List-Unsubscribe header is built from.
MaxHeaderEntries == 2

(***************************************************************************)
(* Strings.                                                                *)
(***************************************************************************)
None == <<"#None">>

Whitespace == {" "}

\* str.lower() / str.upper(), token by token.
LowerTok(t) ==
  CASE t = "Unsubscribe" -> "unsubscribe"
    [] t = "Click to Unsubscribe" -> "click to unsubscribe"
    [] t = "Opt-Out" -> "opt-out"
    [] t = "Opt" -> "opt"
    [] t = "Out" -> "out"
    [] t = "Confirm" -> "confirm"
    [] t = "Con" -> "con"
    [] t = "Read more" -> "read more"
    [] t = "Click here" -> "click here"
    [] t = "You have Successfully Unsubscribed" -> "you have successfully unsubscribed"
    [] t = "You've been removed" -> "you've been removed"
    [] t = "Thank you for your email" -> "thank you for your email"
    [] t = "OK" -> "ok"
    [] t = "POST" -> "post"
    [] t = "Post" -> "post"
    [] t = "GET" -> "get"
    [] OTHER -> t

UpperTok(t) ==
  CASE t = "post" -> "POST"
    [] t = "Post" -> "POST"
    [] t = "get" -> "GET"
    [] OTHER -> t

Lower(s) == [i \in 1..Len(s) |-> LowerTok(s[i])]

Upper(s) == [i \in 1..Len(s) |-> UpperTok(s[i])]

RECURSIVE LStrip(_)
LStrip(s) == IF s # <<>> /\ Head(s) \in Whitespace THEN LStrip(Tail(s)) ELSE s

RECURSIVE RStrip(_)
RStrip(s) ==
  IF s # <<>> /\ s[Len(s)] \in Whitespace THEN RStrip(SubSeq(s, 1, Len(s) - 1)) ELSE s

\* str.strip()
Strip(s) == RStrip(LStrip(s))

\* Tokens that begin with the text "http://" or "https://", and "mailto:".
HttpTokens ==
  { "https://ex.com/u/1", "http://ex.com/u/2", "https://l.ex/a", "https://l.ex/b",
    "https://l.ex/unsubscribe?id=9", "https://shop.ex/news", "https://land.ex/page",
    "https://other.ex/do" }

MailtoTokens == { "mailto:list@ex.com" }

\* s.startswith("http://") or s.startswith("https://")
StartsWithHttp(s) == s # <<>> /\ s[1] \in HttpTokens

\* s.startswith("mailto:")
StartsWithMailto(s) == s # <<>> /\ s[1] \in MailtoTokens

\* Python truthiness of an optional str: None and "" are false.
Truthy(s) == s # None /\ s # <<>>

\* " ".join(parts) for a sequence of strings
RECURSIVE Join(_)
Join(parts) ==
  IF parts = <<>> THEN <<>>
  ELSE IF Len(parts) = 1 THEN parts[1]
  ELSE parts[1] \o <<" ">> \o Join(Tail(parts))

\* Concatenation of a sequence of strings.
RECURSIVE Concat(_)
Concat(parts) == IF parts = <<>> THEN <<>> ELSE Head(parts) \o Concat(Tail(parts))

(***************************************************************************)
(* The two vocabularies.                                                   *)
(***************************************************************************)
\* Lower-case tokens that contain the word "unsubscribe".
UnsubscribeTokens ==
  { "unsubscribe", "click to unsubscribe", "you have successfully unsubscribed",
    "https://l.ex/unsubscribe?id=9" }

\* Lower-case tokens in which UNSUB_PATTERNS finds a match.
IntentTokens == UnsubscribeTokens \cup { "opt-out", "optout" }

\* UNSUB_PATTERNS.search(s): case-insensitive; a match lies inside one token,
\* or spans "opt", an optional single separator, "out".
UnsubSearch(s) ==
  LET l == Lower(s) IN
    \/ \E i \in 1..Len(l) : l[i] \in IntentTokens
    \/ \E i \in 1..Len(l) - 1 : l[i] = "opt" /\ l[i + 1] = "out"
    \/ \E i \in 1..Len(l) - 2 :
         l[i] = "opt" /\ l[i + 1] \in {" ", "_", "-"} /\ l[i + 2] = "out"

\* Lower-case tokens in which SUCCESS_PATTERNS finds a match.
SuccessTokens == { "you have successfully unsubscribed", "you've been removed" }

\* SUCCESS_PATTERNS.search(s): case-insensitive.
SuccessSearch(s) == \E i \in 1..Len(s) : LowerTok(s[i]) \in SuccessTokens

\* "unsubscribe" in text.lower()
ContainsUnsubscribe(s) == \E i \in 1..Len(s) : LowerTok(s[i]) \in UnsubscribeTokens

\* "confirm" in s, for s already lower-cased; "con" directly followed by
\* "firm" spells the word too.
ContainsConfirm(s) ==
  \/ \E i \in 1..Len(s) : s[i] = "confirm"
  \/ \E i \in 1..Len(s) - 1 : s[i] = "con" /\ s[i + 1] = "firm"

\* "List-Unsubscribe=One-Click" in s
ContainsOneClick(s) == \E i \in 1..Len(s) : s[i] = "List-Unsubscribe=One-Click"

(***************************************************************************)
(* Header Extractor: parse_list_unsubscribe_header.                        *)
(***************************************************************************)
\* Index of the first ">" at or after position i, 0 when there is none.
RECURSIVE NextClose(_, _)
NextClose(s, i) ==
  IF i > Len(s) THEN 0 ELSE IF s[i] = ">" THEN i ELSE NextClose(s, i + 1)

\* Group 1 of every match of re.finditer(r"<([^>]+)>", s) from position i on:
\* leftmost matches, not overlapping; the group may hold "<" but never ">".
RECURSIVE FindBracketed(_, _)
FindBracketed(s, i) ==
  IF i > Len(s) THEN <<>>
  ELSE IF s[i] # "<" THEN FindBracketed(s, i + 1)
  ELSE LET j == NextClose(s, i + 1) IN
         IF j = 0 THEN <<>>
         ELSE IF j = i + 1 THEN FindBracketed(s, i + 1)
         ELSE <<SubSeq(s, i + 1, j - 1)>> \o FindBracketed(s, j + 1)

RECURSIVE SelectSeq2(_, _)
SelectSeq2(s, keep) ==
  IF s = <<>> THEN <<>>
  ELSE IF keep[1] THEN <<Head(s)>> \o SelectSeq2(Tail(s), Tail(keep))
  ELSE SelectSeq2(Tail(s), Tail(keep))

\* Mutant: every bracketed URI that is not HTTP(S) counts as one too.
parse_list_unsubscribe_header_AnyScheme(hv) ==
  IF ~Truthy(hv) THEN [http_urls |-> <<>>, mailto_addrs |-> <<>>]
  ELSE LET groups == FindBracketed(hv, 1)
           uris == [i \in 1..Len(groups) |-> Strip(groups[i])]
           isMailto == [i \in 1..Len(uris) |-> StartsWithMailto(uris[i])]
       IN [http_urls |-> uris, mailto_addrs |-> SelectSeq2(uris, isMailto)]

\* Mutant: the text between the brackets is taken without .strip().
parse_list_unsubscribe_header_NoStrip(hv) ==
  IF ~Truthy(hv) THEN [http_urls |-> <<>>, mailto_addrs |-> <<>>]
  ELSE LET uris == FindBracketed(hv, 1)
           isHttp == [i \in 1..Len(uris) |-> StartsWithHttp(uris[i])]
           isMailto == [i \in 1..Len(uris) |->
                          ~StartsWithHttp(uris[i]) /\ StartsWithMailto(uris[i])]
       IN [http_urls |-> SelectSeq2(uris, isHttp),
           mailto_addrs |-> SelectSeq2(uris, isMailto)]

parse_list_unsubscribe_header(hv) ==
  IF ~Truthy(hv) THEN [http_urls |-> <<>>, mailto_addrs |-> <<>>]
  ELSE LET groups == FindBracketed(hv, 1)
           uris == [i \in 1..Len(groups) |-> Strip(groups[i])]
           isHttp == [i \in 1..Len(uris) |-> StartsWithHttp(uris[i])]
           isMailto == [i \in 1..Len(uris) |->
                          ~StartsWithHttp(uris[i]) /\ StartsWithMailto(uris[i])]
       IN [http_urls |-> SelectSeq2(uris, isHttp),
           mailto_addrs |-> SelectSeq2(uris, isMailto)]

(***************************************************************************)
(* HTML as the parser delivers it: a sequence of start-tag, text and       *)
(* end-tag events.  attrs is the list of (name, value) pairs of a start    *)
(* tag; the value of an attribute written without a value is None.         *)
(***************************************************************************)
StartTag(tag, attrs) == [kind |-> "start", tag |-> tag, attrs |-> attrs, data |-> <<>>]

EndTag(tag) == [kind |-> "end", tag |-> tag, attrs |-> <<>>, data |-> <<>>]

Data(text) == [kind |-> "data", tag |-> "", attrs |-> <<>>, data |-> text]

\* dict(attrs).get(name, default): the last pair of that name wins.
RECURSIVE AttrGet(_, _, _)
AttrGet(attrs, name, default) ==
  IF attrs = <<>> THEN default
  ELSE LET last == attrs[Len(attrs)] IN
         IF last[1] = name THEN last[2]
         ELSE AttrGet(SubSeq(attrs, 1, Len(attrs) - 1), name, default)

\* The text of a document as the server sent it (r.text), tags included.
RECURSIVE AttrText(_)
AttrText(attrs) ==
  IF attrs = <<>> THEN <<>>
  ELSE (IF Head(attrs)[2] = None THEN <<Head(attrs)[1]>>
        ELSE <<Head(attrs)[1], "=">> \o Head(attrs)[2]) \o AttrText(Tail(attrs))

RECURSIVE RawText(_)
RawText(events) ==
  IF events = <<>> THEN <<>>
  ELSE LET e == Head(events) IN
         (CASE e.kind = "start" -> <<"<", e.tag>> \o AttrText(e.attrs) \o <<">">>
            [] e.kind = "end" -> <<"</", e.tag, ">">>
            [] OTHER -> e.data) \o RawText(Tail(events))

(***************************************************************************)
(* HTML Link Extractor: class UnsubLinkFinder.                             *)
(***************************************************************************)
UnsubLinkFinder_init ==
  [links |-> <<>>, current_href |-> None, current_text |-> <<>>, in_a |-> FALSE]

\* Mutant: an <a> inside an anchor keeps the text accumulated so far.
UnsubLinkFinder_handle_starttag_KeepText(self, tag, attrs) ==
  IF tag = "a"
  THEN [self EXCEPT !.in_a = TRUE, !.current_href = AttrGet(attrs, "href", None)]
  ELSE self

UnsubLinkFinder_handle_starttag(self, tag, attrs) ==
  IF tag = "a"
  THEN [self EXCEPT !.in_a = TRUE, !.current_text = <<>>,
                    !.current_href = AttrGet(attrs, "href", None)]
  ELSE self

UnsubLinkFinder_handle_data(self, data) ==
  IF self.in_a THEN [self EXCEPT !.current_text = Append(@, data)] ELSE self

\* Mutant: the scheme of the href is not looked at.
UnsubLinkFinder_handle_endtag_AnyHref(self, tag) ==
  IF tag = "a" /\ self.in_a
  THEN LET text == Strip(Join(self.current_text))
           href == self.current_href
           emit == Truthy(href) /\ (UnsubSearch(text) \/ UnsubSearch(href))
       IN [links |-> IF emit THEN Append(self.links, <<href, text>>) ELSE self.links,
           current_href |-> None, current_text |-> <<>>, in_a |-> FALSE]
  ELSE self

UnsubLinkFinder_handle_endtag(self, tag) ==
  IF tag = "a" /\ self.in_a
  THEN LET text == Strip(Join(self.current_text))
           href == self.current_href
           emit == /\ Truthy(href) /\ StartsWithHttp(href)
                   /\ (UnsubSearch(text) \/ UnsubSearch(href))
       IN [links |-> IF emit THEN Append(self.links, <<href, text>>) ELSE self.links,
           current_href |-> None, current_text |-> <<>>, in_a |-> FALSE]
  ELSE self

UnsubLinkFinder_event(self, e) ==
  CASE e.kind = "start" -> UnsubLinkFinder_handle_starttag(self, e.tag, e.attrs)
    [] e.kind = "data" -> UnsubLinkFinder_handle_data(self, e.data)
    [] OTHER -> UnsubLinkFinder_handle_endtag(self, e.tag)

RECURSIVE UnsubLinkFinder_feed(_, _)
UnsubLinkFinder_feed(self, events) ==
  IF events = <<>> THEN self
  ELSE UnsubLinkFinder_feed(UnsubLinkFinder_event(self, Head(events)), Tail(events))

(***************************************************************************)
(* HTML Form Extractor: class FormFinder.  fault names the exception that  *)
(* stopped the scan ("" when it ran to the end).                           *)
(***************************************************************************)
FormFinder_init == [forms |-> <<>>, current_form |-> <<>>, current_text |-> <<>>, fault |-> ""]

\* inputs[name] = value on an insertion-ordered dict kept as a list of pairs
RECURSIVE DictSet(_, _, _)
DictSet(d, name, value) ==
  IF d = <<>> THEN << <<name, value>> >>
  ELSE IF Head(d)[1] = name THEN << <<name, value>> >> \o Tail(d)
  ELSE <<Head(d)>> \o DictSet(Tail(d), name, value)

DictValues(d) == [i \in 1..Len(d) |-> d[i][2]]

FormFinder_handle_starttag(self, tag, attrs) ==
  IF tag = "form"
  THEN LET method == AttrGet(attrs, "method", <<"GET">>) IN
         IF method = None THEN [self EXCEPT !.fault = "AttributeError"]
         ELSE [self EXCEPT
                 !.current_form = << [action |-> AttrGet(attrs, "action", <<>>),
                                      method |-> Upper(method),
                                      inputs |-> <<>>,
                                      text |-> <<>>] >>,
                 !.current_text = <<>>]
  ELSE IF tag = "input" /\ self.current_form # <<>>
  THEN LET name == AttrGet(attrs, "name", None)
           value == AttrGet(attrs, "value", <<>>)
       IN IF Truthy(name)
          THEN [self EXCEPT !.current_form[1].inputs = DictSet(@, name, value)]
          ELSE self
  ELSE self

FormFinder_handle_data(self, data) ==
  IF self.current_form # <<>> THEN [self EXCEPT !.current_text = Append(@, data)] ELSE self

\* Mutant: the current form is not cleared when it is appended.
FormFinder_handle_endtag_KeepForm(self, tag) ==
  IF tag = "form" /\ self.current_form # <<>>
  THEN [self EXCEPT
          !.forms = Append(@, [self.current_form[1] EXCEPT
                                 !.text = Strip(Join(self.current_text))])]
  ELSE self

FormFinder_handle_endtag(self, tag) ==
  IF tag = "form" /\ self.current_form # <<>>
  THEN [self EXCEPT
          !.forms = Append(@, [self.current_form[1] EXCEPT
                                 !.text = Strip(Join(self.current_text))]),
          !.current_form = <<>>,
          !.current_text = <<>>]
  ELSE self

FormFinder_event(self, e) ==
  CASE e.kind = "start" -> FormFinder_handle_starttag(self, e.tag, e.attrs)
    [] e.kind = "data" -> FormFinder_handle_data(self, e.data)
    [] OTHER -> FormFinder_handle_endtag(self, e.tag)

\* feed: the scan stops at the first event whose handler raises.
RECURSIVE FormFinder_feed(_, _)
FormFinder_feed(self, events) ==
  IF events = <<>> \/ self.fault # "" THEN self
  ELSE FormFinder_feed(FormFinder_event(self, Head(events)), Tail(events))

(***************************************************************************)
(* find_unsub_links_in_html: the candidates of every HTML body part that   *)
(* has a partId with a body value, in htmlBody order.                      *)
(***************************************************************************)
RECURSIVE LinksOfParts(_, _)
LinksOfParts(html_parts, body_values) ==
  IF html_parts = <<>> THEN <<>>
  ELSE LET part_id == Head(html_parts).partId
           here == IF Truthy(part_id) /\ part_id \in DOMAIN body_values
                   THEN UnsubLinkFinder_feed(UnsubLinkFinder_init,
                                             body_values[part_id]).links
                   ELSE <<>>
       IN here \o LinksOfParts(Tail(html_parts), body_values)

find_unsub_links_in_html(email) == LinksOfParts(email.htmlBody, email.bodyValues)

(***************************************************************************)
(* The inputs: email records the account can hold and responses a server   *)
(* can give.                                                               *)
(***************************************************************************)
SeqsUpTo(S, n) == UNION { [1..k -> S] : k \in 0..n }

\* The entries a List-Unsubscribe header is built from; the last one lacks
\* its closing bracket.
HeaderEntries ==
  { <<"<", "https://ex.com/u/1", ">">>,
    <<"<", "http://ex.com/u/2", ">">>,
    <<"<", "mailto:list@ex.com", ">">>,
    <<"<", "https://ex.com/u/1">> }

\* Entries written one after the other, separated by commas.
RECURSIVE HeaderOf(_)
HeaderOf(entries) ==
  IF entries = <<>> THEN <<>>
  ELSE IF Len(entries) = 1 THEN entries[1]
  ELSE entries[1] \o <<",">> \o HeaderOf(Tail(entries))

Headers == {None} \cup { HeaderOf(es) : es \in SeqsUpTo(HeaderEntries, MaxHeaderEntries) }

PostHeaders ==
  { None,
    <<"List-Unsubscribe=One-Click">>,
    <<"list-unsubscribe=one-click">>,
    <<"x=1", " ", "List-Unsubscribe=One-Click">> }

Anchor(href, chunks) ==
  <<StartTag("a", << <<"href", href>> >>)>>
    \o [i \in 1..Len(chunks) |-> Data(chunks[i])]
    \o <<EndTag("a")>>

AnchorNews == Anchor(<<"https://shop.ex/news">>, << <<"Read more">> >>)

AnchorOptOut == Anchor(<<"https://l.ex/a">>, << <<"Opt-Out">> >>)

AnchorOptOutSplit == Anchor(<<"https://l.ex/a">>, << <<"Opt">>, <<"Out">> >>)

AnchorUnsubscribe == Anchor(<<"https://l.ex/b">>, << <<" ">>, <<"Click to Unsubscribe">> >>)

AnchorIntentHref == Anchor(<<"https://l.ex/unsubscribe?id=9">>, << <<"Click here">> >>)

AnchorRelative == Anchor(<<"/unsubscribe">>, << <<"Unsubscribe">> >>)

AnchorNoHref == Anchor(None, << <<"Unsubscribe">> >>)

Part(id) == [partId |-> id]

\* htmlBody and bodyValues of the email records.
Bodies ==
  { [htmlBody |-> <<>>, bodyValues |-> <<>>],
    [htmlBody |-> <<Part(<<"1">>)>>,
     bodyValues |-> (<<"1">> :> AnchorNews \o AnchorRelative \o AnchorNoHref)],
    [htmlBody |-> <<Part(<<"1">>)>>,
     bodyValues |-> (<<"1">> :> AnchorOptOut \o AnchorNews \o AnchorUnsubscribe)],
    [htmlBody |-> <<Part(<<"2">>), Part(<<"1">>)>>,
     bodyValues |-> (<<"1">> :> AnchorOptOutSplit) @@ (<<"2">> :> AnchorNews \o AnchorIntentHref)],
    [htmlBody |-> <<Part(None), Part(<<"3">>), Part(<<"1">>)>>,
     bodyValues |-> (<<"1">> :> AnchorOptOut) @@ (<<"2">> :> AnchorUnsubscribe)] }

Emails ==
  { [list_unsub |-> h, list_unsub_post |-> p,
     htmlBody |-> b.htmlBody, bodyValues |-> b.bodyValues] :
    h \in Headers, p \in PostHeaders, b \in Bodies }

Form(attrs, inner) == <<StartTag("form", attrs)>> \o inner \o <<EndTag("form")>>

Input(name, value) == StartTag("input", << <<"name", name>>, <<"value", value>> >>)

PagePlain == <<Data(<<"Thank you for your email">>)>>

PageSuccess == <<Data(<<"You have Successfully Unsubscribed">>)>>

PageOK == <<Data(<<"OK">>)>>

PageRemoved == <<Data(<<"You've been removed">>)>>

FormConfirm2 ==
  Form(<< <<"action", <<"/confirm2">> >>, <<"method", <<"post">> >> >>,
       <<Input(<<"token">>, <<"abc">>)>>)

FormSearch == Form(<< <<"action", <<"/search">> >> >>, <<Input(<<"q">>, <<>>)>>)

FormHashConfirm == Form(<< <<"action", <<"#">> >> >>, <<Data(<<"Confirm">>)>>)

FormEmptyUnsubscribe ==
  Form(<< <<"method", <<"Post">> >> >>,
       <<Data(<<"Unsubscribe">>), Input(<<"email">>, <<"me@ex.com">>),
         Input(<<"email">>, <<"you@ex.com">>)>>)

FormAbsoluteOptOut ==
  Form(<< <<"action", <<"https://other.ex/do">> >>, <<"method", <<"get">> >> >>,
       <<Data(<<"Opt-Out">>)>>)

\* The pages a GET can return.
Pages ==
  { PagePlain,
    PageSuccess,
    PageSuccess \o FormConfirm2,
    <<Data(<<"Click here">>)>> \o FormConfirm2,
    FormSearch,
    FormSearch \o FormSearch,
    FormSearch \o FormConfirm2,
    FormSearch \o FormHashConfirm,
    FormEmptyUnsubscribe \o FormAbsoluteOptOut,
    <<StartTag("form", << <<"action", <<"/confirm2">> >> >>), Data(<<"Confirm">>)>>,
    <<StartTag("form", << <<"method", None>> >>), Data(<<"Confirm">>)>>,
    Form(<< <<"action", None>> >>, <<Input(<<"token">>, None)>>) }

Statuses == {200, 400}

RedirectTarget == <<"https://land.ex/page">>

RaisedRequestException == [exc |-> TRUE, status_code |-> 0, text |-> <<>>, url |-> <<>>]

\* What requests.get(url) can produce: a RequestException, or the final
\* response of the redirect chain with the URL it came from.
GetResponses(url) ==
  {RaisedRequestException} \cup
  { [exc |-> FALSE, status_code |-> c, text |-> page, url |-> u] :
    c \in Statuses, page \in Pages, u \in {url, RedirectTarget} }

\* What a POST, or the GET that submits a form, can produce.
SubmitResponses(url) ==
  {RaisedRequestException} \cup
  { [exc |-> FALSE, status_code |-> c, text |-> page, url |-> url] :
    c \in Statuses, page \in {PageOK, PageRemoved} }

(***************************************************************************)
(* Action Executor.  Each operation sends a request, waits, and reduces    *)
(* the response to a status; the wait is where the model splits it.        *)
(***************************************************************************)
Request(op, method, url, data) ==
  [op |-> op, method |-> method, url |-> url, data |-> data, params |-> None]

\* Mutant: the body is looked at before the status.
attempt_one_click_unsubscribe_TextFirst(r) ==
  IF r.exc THEN "error"
  ELSE IF SuccessSearch(RawText(r.text)) THEN "success"
  ELSE IF r.status_code < 400 THEN "likely_success"
  ELSE "error"

\* attempt_one_click_unsubscribe, from the response on.
attempt_one_click_unsubscribe(r) ==
  IF r.exc THEN "error"
  ELSE IF r.status_code < 400
  THEN IF SuccessSearch(RawText(r.text)) THEN "success" ELSE "likely_success"
  ELSE "error"

\* The scheme and host of the URLs of the model.
Origin(t) ==
  CASE t \in {"https://ex.com/u/1"} -> "https://ex.com"
    [] t \in {"http://ex.com/u/2"} -> "http://ex.com"
    [] t \in {"https://l.ex/a", "https://l.ex/b", "https://l.ex/unsubscribe?id=9"} -> "https://l.ex"
    [] t = "https://shop.ex/news" -> "https://shop.ex"
    [] t = "https://land.ex/page" -> "https://land.ex"
    [] t = "https://other.ex/do" -> "https://other.ex"
    [] OTHER -> t

\* urljoin(base, ref) for ref an absolute URL or a path starting with "/"
urljoin(base, ref) ==
  IF StartsWithHttp(ref) \/ StartsWithMailto(ref) THEN ref
  ELSE <<Origin(base[1])>> \o ref

\* The loop over finder.forms that builds unsub_forms, and the single-form
\* rule after it.  Joining input values raises TypeError when one is None.
form_matches(form) ==
  LET form_text == Lower(form.text) \o Lower(Join(DictValues(form.inputs)))
  IN UnsubSearch(form_text) \/ ContainsConfirm(form_text)

select_unsub_forms(forms) ==
  IF \E i \in 1..Len(forms) : \E k \in 1..Len(forms[i].inputs) : forms[i].inputs[k][2] = None
  THEN [fault |-> "TypeError", unsub_forms |-> <<>>]
  ELSE LET matched == SelectSeq2(forms, [i \in 1..Len(forms) |-> form_matches(forms[i])])
       IN [fault |-> "",
           unsub_forms |-> IF matched = <<>> /\ Len(forms) = 1 THEN forms ELSE matched]

\* The URL the chosen form is submitted to.
form_action(form, url, r) ==
  IF ~Truthy(form.action) \/ form.action = <<"#">> THEN url
  ELSE urljoin(r.url, form.action)

\* Mutant: every form is submitted by GET.
form_request_AlwaysGet(form, url, r) ==
  [Request("form", "GET", form_action(form, url, r), None) EXCEPT !.params = form.inputs]

\* requests.post(action, data=inputs) for a POST form, else
\* requests.get(action, params=inputs).
form_request(form, url, r) ==
  IF form.method = <<"POST">>
  THEN Request("form", "POST", form_action(form, url, r), form.inputs)
  ELSE [Request("form", "GET", form_action(form, url, r), None) EXCEPT !.params = form.inputs]

\* Mutant: the forms of the page are looked at before its text.
attempt_get_unsubscribe_FormsFirst(url, r) ==
  IF r.exc THEN [step |-> "return", status |-> "error", request |-> <<>>]
  ELSE IF r.status_code >= 400 THEN [step |-> "return", status |-> "error", request |-> <<>>]
  ELSE LET finder == FormFinder_feed(FormFinder_init, r.text)
           chosen == select_unsub_forms(finder.forms)
       IN IF finder.fault # "" THEN [step |-> "raise", status |-> finder.fault, request |-> <<>>]
          ELSE IF chosen.fault # ""
          THEN [step |-> "raise", status |-> chosen.fault, request |-> <<>>]
          ELSE IF chosen.unsub_forms # <<>>
          THEN [step |-> "submit", status |-> "",
                request |-> <<form_request(chosen.unsub_forms[1], url, r)>>]
          ELSE IF SuccessSearch(RawText(r.text))
          THEN [step |-> "return", status |-> "success", request |-> <<>>]
          ELSE [step |-> "return", status |-> "manual", request |-> <<>>]

\* attempt_get_unsubscribe from the response of the GET up to its return, its
\* fault, or the submission of a form.
attempt_get_unsubscribe(url, r) ==
  IF r.exc THEN [step |-> "return", status |-> "error", request |-> <<>>]
  ELSE IF r.status_code >= 400 THEN [step |-> "return", status |-> "error", request |-> <<>>]
  ELSE IF SuccessSearch(RawText(r.text))
  THEN [step |-> "return", status |-> "success", request |-> <<>>]
  ELSE LET finder == FormFinder_feed(FormFinder_init, r.text)
           chosen == select_unsub_forms(finder.forms)
       IN IF finder.fault # "" THEN [step |-> "raise", status |-> finder.fault, request |-> <<>>]
          ELSE IF chosen.fault # ""
          THEN [step |-> "raise", status |-> chosen.fault, request |-> <<>>]
          ELSE IF chosen.unsub_forms # <<>>
          THEN [step |-> "submit", status |-> "",
                request |-> <<form_request(chosen.unsub_forms[1], url, r)>>]
          ELSE [step |-> "return", status |-> "manual", request |-> <<>>]

\* Mutant: the try block ends before the form is submitted, so a failure of
\* the submission is not turned into a status.
attempt_get_unsubscribe_form_Uncaught(r2) ==
  IF r2.exc THEN "RequestException"
  ELSE IF r2.status_code < 400
  THEN IF SuccessSearch(RawText(r2.text)) THEN "success" ELSE "likely_success"
  ELSE "error"

\* attempt_get_unsubscribe from the response of the form submission on.
attempt_get_unsubscribe_form(r2) ==
  IF r2.exc THEN "error"
  ELSE IF r2.status_code < 400
  THEN IF SuccessSearch(RawText(r2.text)) THEN "success" ELSE "likely_success"
  ELSE "error"

(***************************************************************************)
(* Strategy Resolver: run().                                               *)
(***************************************************************************)
VARIABLES
  mailbox,     \* what Email/query + Email/get return for the sender: <<>> or <<email>>
  dry_run,     \* the --dry-run flag
  pc,          \* where run() is
  email,       \* the local variable email: <<>> is None
  strategy,    \* the method run() announced ("" before it has one)
  executed,    \* the strategies whose executor operation was called
  requests,    \* the HTTP requests the executor sent, in order
  responses,   \* what came back for each
  status,      \* the status an attempt returned ("" when none did)
  succeeded,   \* the value run() returned, once pc = "done"
  printed,     \* the URLs run() reported instead of or besides fetching them
  dry_report,  \* what the preceding --dry-run invocation printed
  header_value,   \* the argument of a call of parse_list_unsubscribe_header
  header_entries, \* how that header was written, entry by entry
  header_result,  \* <<what the call returned>>, <<>> before it returns
  fed,            \* the events an extractor has been fed so far
  link_finder,    \* the UnsubLinkFinder object
  form_finder     \* the FormFinder object

run_vars ==
  <<mailbox, dry_run, pc, email, strategy, executed, requests, responses, status,
    succeeded, printed, dry_report>>

scan_vars == <<header_value, header_entries, header_result, fed, link_finder, form_finder>>

VARIABLES
  clock,        \* fasttail: the time in seconds, on the server and on the client
  inbox,        \* fasttail: the emails of the account, each with id and receivedAt
  tail_pc,      \* fasttail: where run_daemon stands
  backfill,     \* fasttail: the backfill argument of run_daemon
  api_info,     \* fasttail: the session that api_url, account_id and headers come from
  mailboxes,    \* fasttail: the session the mailbox names were fetched with
  seen_ids,     \* fasttail: run_daemon's seen_ids
  last_check,   \* fasttail: run_daemon's last_check, <<t>> once it is set
  emails,       \* fasttail: the list the last fetch_emails returned
  logfile,      \* fasttail: the ids of the emails written to the log, in order
  after_seed,   \* fasttail: the ids of the emails received after the seeding fetch
  last_event,   \* fasttail: what the last step of run_daemon was
  server,       \* top_senders: the emails the query matches, newest first
  gives_total,  \* top_senders: whether the server answers calculateTotal
  top_pc,       \* top_senders: where collect_emails stands
  records,      \* top_senders: collect_emails' records
  position,     \* top_senders: collect_emails' position
  total,        \* top_senders: collect_emails' total, <<>> for None and <<n>> for n
  retries,      \* top_senders: collect_emails' retries
  top_session,  \* top_senders: the session api_url, account_id and headers come from
  failures,     \* top_senders: fetches that failed since the last one that succeeded
  exit_cause    \* top_senders: how collect_emails ended

tail_vars ==
  <<clock, inbox, tail_pc, backfill, api_info, mailboxes, seen_ids, last_check, emails,
    logfile, after_seed, last_event>>

top_vars ==
  <<server, gives_total, top_pc, records, position, total, retries, top_session, failures,
    exit_cause>>

vars == <<run_vars, scan_vars, tail_vars, top_vars>>

\* run_daemon is not running.
TailIdle ==
  /\ clock = 0
  /\ inbox = {}
  /\ tail_pc = "idle"
  /\ backfill = 0
  /\ api_info = 0
  /\ mailboxes = 0
  /\ seen_ids = {}
  /\ last_check = <<>>
  /\ emails = <<>>
  /\ logfile = <<>>
  /\ after_seed = {}
  /\ last_event = ""

\* collect_emails is not running.
TopIdle ==
  /\ server = <<>>
  /\ gives_total = FALSE
  /\ top_pc = "idle"
  /\ records = <<>>
  /\ position = 0
  /\ total = <<>>
  /\ retries = 0
  /\ top_session = 0
  /\ failures = 0
  /\ exit_cause = ""

\* No extractor is being exercised on its own.
ScanIdle ==
  /\ header_value = None
  /\ header_entries = <<>>
  /\ header_result = <<>>
  /\ fed = <<>>
  /\ link_finder = UnsubLinkFinder_init
  /\ form_finder = FormFinder_init

http_urls == parse_list_unsubscribe_header(email[1].list_unsub).http_urls

mailto_addrs == parse_list_unsubscribe_header(email[1].list_unsub).mailto_addrs

Init ==
  /\ mailbox \in {<<>>} \cup { <<e>> : e \in Emails }
  /\ dry_run \in BOOLEAN
  /\ pc = "start"
  /\ email = <<>>
  /\ strategy = ""
  /\ executed = <<>>
  /\ requests = <<>>
  /\ responses = <<>>
  /\ status = ""
  /\ succeeded = FALSE
  /\ printed = <<>>
  /\ dry_report = <<>>
  /\ ScanIdle
  /\ TailIdle
  /\ TopIdle

\* Mutant: likely_success does not count.
Succeeded_OnlySuccess(st) == st = "success"

\* return status in ("success", "likely_success")
Succeeded(st) == st \in {"success", "likely_success"}

\* Mutant: an attempt that failed falls through to the next strategy.
AfterAttempt_FallThrough(strat, st) ==
  IF st \in {"error", "manual"}
  THEN CASE strat = "one_click" -> "strategy2"
         [] strat = "header_url" -> "strategy3"
         [] OTHER -> "none"
  ELSE "done"

\* Where run() goes once an attempt has returned st: it returns.
AfterAttempt(strat, st) == "done"

\* get_api_info and fetch_sample_email: an account-API failure propagates,
\* no email makes run() return False.
Lookup ==
  /\ pc = "start"
  /\ \E api_ok \in BOOLEAN :
       IF ~api_ok THEN pc' = "raised" /\ UNCHANGED <<email, succeeded>>
       ELSE /\ email' = mailbox
            /\ pc' = IF mailbox = <<>> THEN "done" ELSE "strategy1"
            /\ succeeded' = FALSE
  /\ UNCHANGED <<mailbox, dry_run, strategy, executed, requests, responses, status,
                 printed, dry_report, scan_vars, tail_vars, top_vars>>

\* Mutant: the dry_run flag is not looked at.
Choose_IgnoresDryRun(strat, op, method, url, data) ==
  /\ strategy' = strat
  /\ executed' = Append(executed, strat)
  /\ requests' = Append(requests, Request(op, method, url, data))
  /\ pc' = op \o "_sent"
  /\ UNCHANGED <<printed, succeeded>>
  /\ UNCHANGED <<mailbox, dry_run, email, responses, status, dry_report, scan_vars, tail_vars, top_vars>>

\* A strategy that applies: in a dry run report it and return True, else
\* call the executor operation, which sends its first request.
Choose(strat, op, method, url, data) ==
  /\ strategy' = strat
  /\ IF dry_run
     THEN /\ printed' = Append(printed, [what |-> "would_" \o op, url |-> url])
          /\ succeeded' = TRUE
          /\ pc' = "done"
          /\ UNCHANGED <<executed, requests>>
     ELSE /\ executed' = Append(executed, strat)
          /\ requests' = Append(requests, Request(op, method, url, data))
          /\ pc' = op \o "_sent"
          /\ UNCHANGED <<printed, succeeded>>
  /\ UNCHANGED <<mailbox, dry_run, email, responses, status, dry_report, scan_vars, tail_vars, top_vars>>

Skip(next) ==
  /\ pc' = next
  /\ UNCHANGED <<mailbox, dry_run, email, strategy, executed, requests, responses, status,
                 succeeded, printed, dry_report, scan_vars, tail_vars, top_vars>>

\* Mutant: the marker of the List-Unsubscribe-Post header is not looked for.
one_click_active_NoMarker == http_urls # <<>> /\ Truthy(email[1].list_unsub_post)

\* Strategy 1: List-Unsubscribe header with one-click POST
one_click_active ==
  /\ http_urls # <<>>
  /\ Truthy(email[1].list_unsub_post)
  /\ ContainsOneClick(email[1].list_unsub_post)

Strategy1 ==
  /\ pc = "strategy1"
  /\ IF one_click_active
     THEN Choose("one_click", "one_click", "POST", http_urls[1], <<"List-Unsubscribe=One-Click">>)
     ELSE Skip("strategy2")

\* Mutant: the last HTTP(S) URI of the header is taken.
header_url_target_Last == http_urls[Len(http_urls)]

\* The URL strategy 2 uses: http_urls[0]
header_url_target == http_urls[1]

\* Strategy 2: List-Unsubscribe header URL (GET)
Strategy2 ==
  /\ pc = "strategy2"
  /\ IF http_urls # <<>>
     THEN Choose("header_url", "get", "GET", header_url_target, <<>>)
     ELSE Skip("strategy3")

\* Mutant: the first candidate is always taken.
best_link_First(links, first) == first

\* Prefer links with "unsubscribe" in the text
RECURSIVE best_link(_, _)
best_link(links, first) ==
  IF links = <<>> THEN first
  ELSE IF ContainsUnsubscribe(Head(links)[2]) THEN Head(links)
  ELSE best_link(Tail(links), first)

\* Strategy 3: Find unsubscribe link in HTML body
Strategy3 ==
  /\ pc = "strategy3"
  /\ LET body_links == find_unsub_links_in_html(email[1]) IN
       IF body_links # <<>>
       THEN Choose("html_link", "get", "GET", best_link(body_links, body_links[1])[1], <<>>)
       ELSE Skip("none")

\* No unsubscribe mechanism found
NoMechanism ==
  /\ pc = "none"
  /\ strategy' = "none"
  /\ printed' = Append(printed, IF mailto_addrs # <<>>
                                THEN [what |-> "mailto_only", url |-> mailto_addrs[1]]
                                ELSE [what |-> "not_found", url |-> <<>>])
  /\ succeeded' = FALSE
  /\ pc' = "done"
  /\ UNCHANGED <<mailbox, dry_run, email, executed, requests, responses, status, dry_report, scan_vars, tail_vars, top_vars>>

\* run() after an attempt returned st for url.
Returned(st, url) ==
  /\ status' = st
  /\ printed' = IF st = "manual" /\ strategy # "one_click"
                THEN Append(printed, [what |-> "open_manually", url |-> url])
                ELSE printed
  /\ pc' = AfterAttempt(strategy, st)
  /\ succeeded' = Succeeded(st)

OneClickResponse ==
  /\ pc = "one_click_sent"
  /\ \E r \in SubmitResponses(requests[1].url) :
       /\ responses' = Append(responses, r)
       /\ Returned(attempt_one_click_unsubscribe(r), requests[1].url)
  /\ UNCHANGED <<mailbox, dry_run, email, strategy, executed, requests, dry_report, scan_vars, tail_vars, top_vars>>

GetResponse ==
  /\ pc = "get_sent"
  /\ LET url == requests[Len(requests)].url IN
     \E r \in GetResponses(url) :
       LET got == attempt_get_unsubscribe(url, r) IN
         /\ responses' = Append(responses, r)
         /\ CASE got.step = "return" -> Returned(got.status, url) /\ UNCHANGED requests
              [] got.step = "raise" ->
                   /\ pc' = "raised"
                   /\ UNCHANGED <<requests, status, printed, succeeded>>
              [] OTHER ->
                   /\ requests' = Append(requests, got.request[1])
                   /\ pc' = "form_sent"
                   /\ UNCHANGED <<status, printed, succeeded>>
  /\ UNCHANGED <<mailbox, dry_run, email, strategy, executed, dry_report, scan_vars, tail_vars, top_vars>>

FormResponse ==
  /\ pc = "form_sent"
  /\ \E r2 \in SubmitResponses(requests[Len(requests)].url) :
       /\ responses' = Append(responses, r2)
       /\ Returned(attempt_get_unsubscribe_form(r2), requests[1].url)
  /\ UNCHANGED <<mailbox, dry_run, email, strategy, executed, requests, dry_report, scan_vars, tail_vars, top_vars>>

Next ==
  \/ Lookup
  \/ Strategy1
  \/ OneClickResponse
  \/ Strategy2
  \/ Strategy3
  \/ NoMechanism
  \/ GetResponse
  \/ FormResponse

Spec == Init /\ [][Next]_vars

\* main(): the tool is run with --dry-run first and then without it, on the
\* same mailbox.
main ==
  /\ pc = "done"
  /\ dry_run
  /\ dry_run' = FALSE
  /\ dry_report' = <<[strategy |-> strategy, printed |-> printed]>>
  /\ pc' = "start"
  /\ email' = <<>>
  /\ strategy' = ""
  /\ printed' = <<>>
  /\ succeeded' = FALSE
  /\ UNCHANGED <<mailbox, executed, requests, responses, status, scan_vars, tail_vars, top_vars>>

InitDryRun == Init /\ dry_run

NextRerun == Next \/ main

SpecRerun == InitDryRun /\ [][NextRerun]_vars

(***************************************************************************)
(* Properties of the resolver.                                             *)
(***************************************************************************)
\* run() has an email and is past the test of strategy 1, 2, 3.
Past1 == email # <<>> /\ pc # "strategy1"

Past2 == Past1 /\ pc # "strategy2"

Past3 == Past2 /\ pc # "strategy3"

body_links == find_unsub_links_in_html(email[1])

\* The executor operations each strategy consists of.
OpsOf(strat) ==
  CASE strat = "one_click" -> {"one_click"}
    [] strat \in {"header_url", "html_link"} -> {"get", "form"}
    [] OTHER -> {}

\* C1: a run executes at most one strategy; once its attempt returned error or
\* manual, run() has returned, and every request sent belongs to that one
\* strategy (no GET after a failed one-click POST, no body link after a
\* failed header URL).
C1_OneStrategy ==
  /\ Len(executed) <= 1
  /\ status \in {"error", "manual"} => pc = "done"
  /\ \A i \in 1..Len(requests) :
       /\ executed # <<>>
       /\ requests[i].op \in OpsOf(executed[1])
  /\ dry_run => executed = <<>>

\* A one-click POST failed although the header URL and a body link were there
\* to fall back on.
C1_Witness ==
  /\ pc = "done"
  /\ executed = <<"one_click">>
  /\ status = "error"
  /\ body_links # <<>>

\* C2: a resolution sends at most two requests: the one-click POST or the GET
\* of the chosen URL, then at most one form submission; the form submission
\* follows a GET answered with a status below 400 and a body without success
\* vocabulary; one_click never submits a form.
C2_AtMostTwoRequests ==
  /\ Len(requests) <= 2
  /\ requests # <<>> => requests[1].op \in {"one_click", "get"}
  /\ Len(responses) <= Len(requests)
  /\ Len(requests) = 2 =>
       /\ requests[1].op = "get"
       /\ requests[2].op = "form"
       /\ ~responses[1].exc
       /\ responses[1].status_code < 400
       /\ ~SuccessSearch(RawText(responses[1].text))
  /\ strategy = "one_click" => Len(requests) <= 1

\* A form was submitted and answered.
C2_Witness == pc = "done" /\ Len(requests) = 2 /\ Len(responses) = 2

\* C3: one_click is the strategy exactly when the header yields an HTTP(S)
\* URI and the List-Unsubscribe-Post value contains the marker; its POST goes
\* to the first HTTP(S) URI of the header.
C3_OneClickSelection ==
  Past1 =>
    /\ strategy = "one_click" <=>
         /\ http_urls # <<>>
         /\ email[1].list_unsub_post # None
         /\ ContainsOneClick(email[1].list_unsub_post)
    /\ strategy = "one_click" =>
         /\ dry_run => printed = <<[what |-> "would_one_click", url |-> http_urls[1]]>>
         /\ ~dry_run =>
              /\ Len(requests) = 1
              /\ requests[1].op = "one_click"
              /\ requests[1].method = "POST"
              /\ requests[1].url = http_urls[1]
              /\ StartsWithHttp(requests[1].url)
              /\ ~StartsWithMailto(requests[1].url)

\* The POST went to the first of two different HTTP(S) URIs.
C3_Witness ==
  /\ pc = "done"
  /\ ~dry_run
  /\ strategy = "one_click"
  /\ Len(http_urls) = 2
  /\ http_urls[1] # http_urls[2]

\* The hrefs of the link candidates of the email body.
body_hrefs == { body_links[k][1] : k \in 1..Len(body_links) }

\* C4: header_url is the strategy exactly when one_click is not and the
\* header yields an HTTP(S) URI; it GETs the first such URI, and no request
\* and no report of the run uses a link of the HTML body, whatever the GET
\* ends in.
C4_HeaderUrlSelection ==
  Past2 =>
    /\ strategy = "header_url" <=> (strategy # "one_click" /\ http_urls # <<>>)
    /\ strategy = "header_url" =>
         /\ dry_run => printed = <<[what |-> "would_get", url |-> http_urls[1]]>>
         /\ ~dry_run =>
              /\ executed = <<"header_url">>
              /\ requests[1].op = "get"
              /\ requests[1].method = "GET"
              /\ requests[1].url = http_urls[1]
              /\ \A i \in 1..Len(requests) : requests[i].url \notin body_hrefs
              /\ \A i \in 1..Len(printed) : printed[i].url \notin body_hrefs

\* The GET of the header URL ended in manual or error while the body had a
\* link candidate.
C4_Witness ==
  /\ pc = "done"
  /\ strategy = "header_url"
  /\ status \in {"error", "manual"}
  /\ body_links # <<>>
  /\ Len(http_urls) = 2
  /\ http_urls[1] # http_urls[2]

\* The candidates part by part, in htmlBody order.
PartLinks(e, i) ==
  IF Truthy(e.htmlBody[i].partId) /\ e.htmlBody[i].partId \in DOMAIN e.bodyValues
  THEN UnsubLinkFinder_feed(UnsubLinkFinder_init, e.bodyValues[e.htmlBody[i].partId]).links
  ELSE <<>>

CandidatesInOrder(e) == Concat([i \in 1..Len(e.htmlBody) |-> PartLinks(e, i)])

\* The href of the first candidate whose text contains "unsubscribe", else of
\* the first candidate.
PreferredHref(links) ==
  LET named == { i \in 1..Len(links) : ContainsUnsubscribe(links[i][2]) } IN
    IF named = {} THEN links[1][1]
    ELSE links[CHOOSE i \in named : \A k \in named : i <= k][1]

\* C5: html_link is the strategy exactly when the header yields no HTTP(S)
\* URI and the body parts, in htmlBody order, yield a candidate; the URL
\* fetched is that of the first candidate whose text contains "unsubscribe"
\* in any case, else that of the first candidate.
C5_HtmlLinkSelection ==
  Past3 =>
    /\ strategy = "html_link" <=> (http_urls = <<>> /\ CandidatesInOrder(email[1]) # <<>>)
    /\ strategy = "html_link" =>
         LET href == PreferredHref(CandidatesInOrder(email[1])) IN
           /\ dry_run => printed = <<[what |-> "would_get", url |-> href]>>
           /\ ~dry_run =>
                /\ requests[1].op = "get"
                /\ requests[1].method = "GET"
                /\ requests[1].url = href

\* The link fetched is the second candidate, the first one having no
\* "unsubscribe" in its text.
C5_Witness ==
  /\ pc = "done"
  /\ strategy = "html_link"
  /\ ~dry_run
  /\ Len(body_links) >= 2
  /\ ~ContainsUnsubscribe(body_links[1][2])
  /\ requests[1].url = body_links[2][1]
  /\ requests[1].url # body_links[1][1]

\* C6: with no HTTP(S) URI in the header and no link candidate in the body,
\* run() returns False without sending a request, with or without a mailto
\* URI in the header; a mailto URI is reported only, and no request of any
\* run targets a mailto URI.
C6_NoMechanism ==
  /\ (Past3 /\ pc # "none" /\ http_urls = <<>> /\ body_links = <<>>) =>
       /\ pc = "done"
       /\ strategy = "none"
       /\ ~succeeded
       /\ requests = <<>>
       /\ executed = <<>>
       /\ printed = IF mailto_addrs # <<>>
                    THEN <<[what |-> "mailto_only", url |-> mailto_addrs[1]]>>
                    ELSE <<[what |-> "not_found", url |-> <<>>]>>
  /\ strategy = "none" => (http_urls = <<>> /\ body_links = <<>>)
  /\ \A i \in 1..Len(requests) :
       /\ ~StartsWithMailto(requests[i].url)
       /\ email # <<>> =>
            \A k \in 1..Len(mailto_addrs) : requests[i].url # mailto_addrs[k]

\* Scenario C: nothing but a mailto URI in the header.
C6_Witness ==
  /\ pc = "done"
  /\ strategy = "none"
  /\ mailto_addrs # <<>>
  /\ ~dry_run
  /\ ~succeeded

\* C7 as stated: whenever run() returns, dry runs and runs without an email
\* included, it returns True exactly when an attempt ended in success or
\* likely_success.
C7_Original == pc = "done" => (succeeded <=> status \in {"success", "likely_success"})

\* C7, amended: a run that is not a dry run returns True exactly when its
\* attempt ended in success or likely_success (False when there was no
\* attempt); a dry run makes no attempt and returns True exactly when it
\* selected one_click, header_url or html_link.
C7_SucceededIffOutcome ==
  pc = "done" =>
    IF dry_run
    THEN /\ status = ""
         /\ succeeded <=> strategy \in {"one_click", "header_url", "html_link"}
    ELSE succeeded <=> status \in {"success", "likely_success"}

\* A run returned True on a form submission that was accepted without a
\* confirmation text.
C7_Witness ==
  /\ pc = "done"
  /\ ~dry_run
  /\ succeeded
  /\ status = "likely_success"
  /\ Len(requests) = 2

\* C8: a dry run sends no request, and the strategy and URL it reports are
\* the strategy and the first request of the run without --dry-run on the
\* same email.
C8_DryRunMatches ==
  /\ dry_run => (requests = <<>> /\ responses = <<>> /\ executed = <<>>)
  /\ (~dry_run /\ pc \in {"one_click_sent", "get_sent", "form_sent", "done", "raised"}
        /\ email # <<>>) =>
       /\ dry_report # <<>>
       /\ dry_report[1].strategy = strategy
       /\ IF strategy = "none"
          THEN requests = <<>> /\ dry_report[1].printed = printed
          ELSE /\ requests # <<>>
               /\ dry_report[1].printed =
                    <<[what |-> "would_" \o requests[1].op, url |-> requests[1].url]>>

\* The run after a dry run fetched the body link the dry run had reported and
\* submitted a form.
C8_Witness ==
  /\ ~dry_run
  /\ pc = "done"
  /\ strategy = "html_link"
  /\ dry_report # <<>>
  /\ dry_report[1].strategy = "html_link"
  /\ Len(requests) = 2

\* C9: the one-click POST ends in error for a status >= 400 whatever the
\* body, in success for a status < 400 with success vocabulary in the body,
\* in likely_success for a status < 400 without it, and never in manual.
C9_OneClickOutcome ==
  /\ strategy = "one_click" => status # "manual"
  /\ (strategy = "one_click" /\ pc = "done" /\ ~dry_run) =>
       /\ Len(responses) = 1
       /\ LET r == responses[1]
              matches == SuccessSearch(RawText(r.text))
          IN /\ r.exc => status = "error"
             /\ (~r.exc /\ r.status_code >= 400) => status = "error"
             /\ (~r.exc /\ r.status_code < 400 /\ matches) => status = "success"
             /\ (~r.exc /\ r.status_code < 400 /\ ~matches) => status = "likely_success"

\* A one-click POST answered 400 with a body that says "you've been removed".
C9_Witness ==
  /\ pc = "done"
  /\ strategy = "one_click"
  /\ status = "error"
  /\ ~responses[1].exc
  /\ responses[1].status_code >= 400
  /\ SuccessSearch(RawText(responses[1].text))

\* A page on which no form is ever closed has no form, hence no candidate;
\* on any other page the candidates are those the code selects, when the
\* scan and the selection run to the end.
NoCandidateForm(page) ==
  IF \A i \in 1..Len(page) : ~(page[i].kind = "end" /\ page[i].tag = "form") THEN TRUE
  ELSE LET finder == FormFinder_feed(FormFinder_init, page)
           chosen == select_unsub_forms(finder.forms)
       IN finder.fault = "" /\ chosen.fault = "" /\ chosen.unsub_forms = <<>>

\* C10 as stated: after the GET of a GET strategy, a status >= 400 gives error
\* whatever the body holds; else success vocabulary in the body gives success
\* and no form is submitted; else manual is returned exactly when no candidate
\* form exists.
C10_Original ==
  (strategy \in {"header_url", "html_link"} /\ responses # <<>> /\ ~responses[1].exc) =>
    LET r == responses[1]
        matches == SuccessSearch(RawText(r.text))
    IN /\ r.status_code >= 400 =>
            (pc = "done" /\ status = "error" /\ Len(requests) = 1)
       /\ (r.status_code < 400 /\ matches) =>
            (pc = "done" /\ status = "success" /\ Len(requests) = 1)
       /\ status = "manual" =>
            (r.status_code < 400 /\ ~matches /\ NoCandidateForm(r.text))
       /\ (r.status_code < 400 /\ ~matches /\ NoCandidateForm(r.text)) =>
            (pc = "done" /\ status = "manual")

\* The forms of a page in document order, and the positions of those whose
\* lower-cased text plus input values match the intent vocabulary or hold
\* "confirm".
PageForms(page) == FormFinder_feed(FormFinder_init, page).forms

MatchingForms(forms) == { i \in 1..Len(forms) : form_matches(forms[i]) }

\* The position of the candidate that is to be submitted, 0 when there is no
\* candidate: the first matching form, else the only form of the page.
FirstCandidate(forms) ==
  IF MatchingForms(forms) # {}
  THEN CHOOSE i \in MatchingForms(forms) : \A j \in MatchingForms(forms) : i <= j
  ELSE IF Len(forms) = 1 THEN 1 ELSE 0

\* The GET of a GET strategy was answered below 400 without success
\* vocabulary: the forms of the page are looked at.
FormsConsidered ==
  /\ strategy \in {"header_url", "html_link"}
  /\ responses # <<>>
  /\ ~responses[1].exc
  /\ responses[1].status_code < 400
  /\ ~SuccessSearch(RawText(responses[1].text))

\* C11 as stated: the candidates are the forms whose text plus input values
\* match the intent vocabulary or hold "confirm", else the only form of a
\* one-form page, else none; with no candidate no form is submitted, and with
\* one or several candidates exactly one form, the first candidate in
\* document order, is submitted.
C11_Original ==
  FormsConsidered =>
    LET forms == PageForms(responses[1].text)
        first == FirstCandidate(forms)
    IN IF first = 0
       THEN Len(requests) = 1
       ELSE /\ Len(requests) = 2
            /\ requests[2].op = "form"
            /\ forms[first].inputs \in {requests[2].data, requests[2].params}

\* The form that was submitted, once the second request is out.
SubmittedForm == PageForms(responses[1].text)[FirstCandidate(PageForms(responses[1].text))]

\* C12 as stated: the form goes to its action resolved against the final URL
\* of the fetched page: a relative action against that URL's origin, an
\* absolute action unchanged, an empty or "#" action to the final URL itself.
C12_Original ==
  (FormsConsidered /\ Len(requests) = 2) =>
    LET U1 == responses[1].url
        action == SubmittedForm.action
    IN requests[2].url = IF action = <<>> \/ action = <<"#">> THEN U1
                         ELSE urljoin(U1, action)

\* C13: the chosen form is sent by POST with its input mapping as body exactly
\* when its method is POST, otherwise by GET with the mapping as query
\* parameters; the response gives error at a status >= 400, success below 400
\* with success vocabulary in the body, likely_success below 400 without it,
\* and never manual.
C13_FormSubmission ==
  (FormsConsidered /\ Len(requests) = 2) =>
    LET form == SubmittedForm
        sent == requests[2]
    IN /\ sent.op = "form"
       /\ sent.method \in {"POST", "GET"}
       /\ sent.method = "POST" <=> form.method = <<"POST">>
       /\ sent.method = "POST" => (sent.data = form.inputs /\ sent.params = None)
       /\ sent.method = "GET" => (sent.params = form.inputs /\ sent.data = None)
       /\ status # "manual"
       /\ pc = "done" <=> Len(responses) = 2
       /\ (pc = "done" /\ ~responses[2].exc) =>
            LET r2 == responses[2]
                matches == SuccessSearch(RawText(r2.text))
            IN /\ r2.status_code >= 400 => status = "error"
               /\ (r2.status_code < 400 /\ matches) => status = "success"
               /\ (r2.status_code < 400 /\ ~matches) => status = "likely_success"

\* A form written with method "Post" was sent by POST with its inputs as body
\* and answered 400 with a body of success vocabulary.
C13_Witness ==
  /\ FormsConsidered
  /\ Len(requests) = 2
  /\ pc = "done"
  /\ SubmittedForm.method = <<"POST">>
  /\ requests[2].method = "POST"
  /\ requests[2].data # <<>>
  /\ ~responses[2].exc
  /\ responses[2].status_code >= 400
  /\ SuccessSearch(RawText(responses[2].text))
  /\ status = "error"

\* C14: a timeout or connection failure of the one-click POST, of the initial
\* GET or of the form submission ends the run with status error and
\* succeeded = false: nothing propagates, no request follows the failed one,
\* and the initial GET is not sent again.
C14_FailuresBecomeError ==
  \A i \in 1..Len(responses) :
    responses[i].exc =>
      /\ i = Len(responses)
      /\ Len(requests) = i
      /\ pc = "done"
      /\ status = "error"
      /\ ~succeeded
      /\ Cardinality({ k \in 1..Len(requests) : requests[k].op = "form" }) = i - 1

\* The GET was answered with a form, and the submission of the form timed out.
C14_Witness ==
  /\ Len(responses) = 2
  /\ ~responses[1].exc
  /\ responses[2].exc
  /\ requests[2].op = "form"
  /\ pc = "done"
  /\ status = "error"
  /\ ~succeeded

\* C15 as stated: scanning a fetched page for forms and selecting among them
\* never faults, whatever the markup: the scan and the selection complete and
\* the run goes on to submit a form or to return manual.
C15_Original ==
  FormsConsidered =>
    /\ FormFinder_feed(FormFinder_init, responses[1].text).fault = ""
    /\ select_unsub_forms(PageForms(responses[1].text)).fault = ""
    /\ pc # "raised"

(***************************************************************************)
(* parse_list_unsubscribe_header called on its own, on headers written     *)
(* entry by entry.                                                         *)
(***************************************************************************)
MaxWrittenEntries == 2

\* The run of the resolver is not part of this specification.
RunIdle ==
  /\ mailbox = <<>>
  /\ dry_run = FALSE
  /\ pc = "idle"
  /\ email = <<>>
  /\ strategy = ""
  /\ executed = <<>>
  /\ requests = <<>>
  /\ responses = <<>>
  /\ status = ""
  /\ succeeded = FALSE
  /\ printed = <<>>
  /\ dry_report = <<>>

WrittenUris ==
  { <<"https://ex.com/u/1">>, <<"http://ex.com/u/2">>, <<"mailto:list@ex.com">>,
    <<"ftp://ex.com/f">> }

\* An entry is a URI written between brackets ("closed"), between brackets
\* with blanks around it ("padded"), after "<" with no ">" ("unclosed"), or
\* with no bracket at all ("bare").
WrittenEntries ==
  { [uri |-> u, form |-> f] : u \in WrittenUris, f \in {"closed", "padded", "unclosed", "bare"} }

EntryText(e) ==
  CASE e.form = "closed" -> <<"<">> \o e.uri \o <<">">>
    [] e.form = "padded" -> <<"<", " ">> \o e.uri \o <<" ", ">">>
    [] e.form = "unclosed" -> <<"<">> \o e.uri
    [] OTHER -> e.uri

\* The header text: the entries separated by a comma and a blank.
RECURSIVE HeaderText(_)
HeaderText(entries) ==
  IF entries = <<>> THEN <<>>
  ELSE IF Len(entries) = 1 THEN EntryText(entries[1])
  ELSE EntryText(entries[1]) \o <<",", " ">> \o HeaderText(Tail(entries))

InitHeader ==
  /\ RunIdle
  /\ TailIdle
  /\ TopIdle
  /\ \E absent \in BOOLEAN :
       IF absent
       THEN header_entries = <<>> /\ header_value = None
       ELSE /\ header_entries \in SeqsUpTo(WrittenEntries, MaxWrittenEntries)
            /\ header_value = HeaderText(header_entries)
  /\ header_result = <<>>
  /\ fed = <<>>
  /\ link_finder = UnsubLinkFinder_init
  /\ form_finder = FormFinder_init

ParseHeader ==
  /\ header_result = <<>>
  /\ header_result' = <<parse_list_unsubscribe_header(header_value)>>
  /\ UNCHANGED <<run_vars, tail_vars, top_vars, header_value, header_entries, fed, link_finder, form_finder>>

NextHeader == ParseHeader

SpecHeader == InitHeader /\ [][NextHeader]_vars

\* The scheme a URI is written with.
SchemeOf(uri) ==
  CASE uri \in {<<"https://ex.com/u/1">>, <<"http://ex.com/u/2">>} -> "http"
    [] uri = <<"mailto:list@ex.com">> -> "mailto"
    [] OTHER -> "other"

\* The URIs of the well-formed (bracket-delimited) entries of one scheme, in
\* the order the header has them.
RECURSIVE BracketedOfScheme(_, _)
BracketedOfScheme(entries, scheme) ==
  IF entries = <<>> THEN <<>>
  ELSE (IF Head(entries).form \in {"closed", "padded"} /\ SchemeOf(Head(entries).uri) = scheme
        THEN <<Head(entries).uri>> ELSE <<>>)
       \o BracketedOfScheme(Tail(entries), scheme)

\* Every "<" of the header has its ">".
AllClosed(entries) == \A i \in 1..Len(entries) : entries[i].form # "unclosed"

\* C16: for a header of bracket-delimited URIs and other text, the two lists
\* returned are the bracketed http(s) URIs and the bracketed mailto URIs, each
\* in header order with duplicates kept; URIs of other schemes and text
\* outside brackets are in neither; an absent or empty header gives two empty
\* lists.
C16_HeaderPartition ==
  (header_result # <<>> /\ AllClosed(header_entries)) =>
    /\ header_result[1].http_urls = BracketedOfScheme(header_entries, "http")
    /\ header_result[1].mailto_addrs = BracketedOfScheme(header_entries, "mailto")
    /\ ~Truthy(header_value) =>
         (header_result[1].http_urls = <<>> /\ header_result[1].mailto_addrs = <<>>)

\* A header with a padded mailto URI before an https URI, both bracketed.
C16_Witness ==
  /\ header_result # <<>>
  /\ Len(header_entries) = 2
  /\ header_entries[1] = [uri |-> <<"mailto:list@ex.com">>, form |-> "padded"]
  /\ header_entries[2] = [uri |-> <<"https://ex.com/u/1">>, form |-> "closed"]
  /\ header_result[1].http_urls = << <<"https://ex.com/u/1">> >>
  /\ header_result[1].mailto_addrs = << <<"mailto:list@ex.com">> >>

\* C17 as stated: an entry without its closing bracket is not matched and
\* contributes nothing: the lists hold the well-formed entries only, each
\* exactly as written between its own brackets.
C17_Original ==
  header_result # <<>> =>
    /\ header_result[1].http_urls = BracketedOfScheme(header_entries, "http")
    /\ header_result[1].mailto_addrs = BracketedOfScheme(header_entries, "mailto")

(***************************************************************************)
(* UnsubLinkFinder fed one event at a time.                                *)
(***************************************************************************)
MaxEvents == 5

StartA(href) == StartTag("a", << <<"href", href>> >>)

\* The events the link extractor is fed: anchors with an http(s) href without
\* and with an intent word, with a relative href, with an href of another
\* scheme and with an href that has no value; text with and without an
\* intent word; </a>; and a tag that is not an anchor.
LinkEvents ==
  { StartA(<<"https://l.ex/b">>),
    StartA(<<"https://l.ex/unsubscribe?id=9">>),
    StartA(<<"/unsubscribe">>),
    StartA(<<"mailto:list@ex.com">>),
    StartA(None),
    Data(<<"Unsubscribe">>),
    Data(<<"Read more">>),
    EndTag("a"),
    EndTag("p") }

InitLinks ==
  /\ RunIdle
  /\ ScanIdle
  /\ TailIdle
  /\ TopIdle

FeedLink ==
  /\ Len(fed) < MaxEvents
  /\ \E e \in LinkEvents :
       /\ fed' = Append(fed, e)
       /\ link_finder' = UnsubLinkFinder_event(link_finder, e)
  /\ UNCHANGED <<run_vars, tail_vars, top_vars, header_value, header_entries, header_result, form_finder>>

NextLinks == FeedLink

SpecLinks == InitLinks /\ [][NextLinks]_vars

IsStartA(e) == e.kind = "start" /\ e.tag = "a"

IsEndA(e) == e.kind = "end" /\ e.tag = "a"

\* The position of the <a> that the </a> at position j closes, 0 when that
\* </a> is outside any anchor: the last <a> before j, unless a </a> lies
\* between the two.
OpeningOf(events, j) ==
  LET starts == { i \in 1..(j - 1) : IsStartA(events[i]) } IN
    IF starts = {} THEN 0
    ELSE LET i == CHOOSE i \in starts : \A k \in starts : k <= i IN
           IF \E k \in (i + 1)..(j - 1) : IsEndA(events[k]) THEN 0 ELSE i

\* The text events between positions i and j.
RECURSIVE TextBetween(_, _, _)
TextBetween(events, i, j) ==
  IF i + 1 >= j THEN <<>>
  ELSE (IF events[i + 1].kind = "data" THEN <<events[i + 1].data>> ELSE <<>>)
       \o TextBetween(events, i + 1, j)

\* The anchors closed within the first j events, in the order of their
\* closing tags, each with its href and its trimmed text.
RECURSIVE ClosedAnchors(_, _)
ClosedAnchors(events, j) ==
  IF j = 0 THEN <<>>
  ELSE ClosedAnchors(events, j - 1) \o
       (IF IsEndA(events[j]) /\ OpeningOf(events, j) # 0
        THEN LET i == OpeningOf(events, j) IN
               << <<AttrGet(events[i].attrs, "href", None),
                    Strip(Join(TextBetween(events, i, j)))>> >>
        ELSE <<>>)

\* An href that is present, not empty, and written with http:// or https://.
AbsoluteHttp(href) ==
  /\ href # None
  /\ href # <<>>
  /\ href[1] \in {"https://l.ex/b", "https://l.ex/unsubscribe?id=9"}

Qualifies(anchor) ==
  /\ AbsoluteHttp(anchor[1])
  /\ (UnsubSearch(anchor[2]) \/ UnsubSearch(anchor[1]))

\* C18: after any sequence of events every pair of links has a non-empty
\* http(s) href and an intent match in its text or its href, and links holds
\* exactly the closed anchors that qualify, in the order of their closing
\* tags: an anchor that fails the intent test on both, or whose href is
\* missing, relative or of another scheme, is not in it.
C18_LinksQualify ==
  LET anchors == ClosedAnchors(fed, Len(fed)) IN
    /\ \A k \in 1..Len(link_finder.links) : Qualifies(link_finder.links[k])
    /\ link_finder.links =
         SelectSeq2(anchors, [k \in 1..Len(anchors) |-> Qualifies(anchors[k])])

\* Two anchors were closed: the first has an intent word in its text but a
\* mailto href, the second has an http href with an intent word and no text;
\* only the second is in links.
C18_Witness ==
  /\ fed = <<StartA(<<"mailto:list@ex.com">>), Data(<<"Unsubscribe">>), EndTag("a"),
             StartA(<<"https://l.ex/unsubscribe?id=9">>), EndTag("a")>>
  /\ link_finder.links = << <<<<"https://l.ex/unsubscribe?id=9">>, <<>>>> >>

\* The event of a step of the link extractor.
FedEvent == fed'[Len(fed')]

\* C20: an <a> seen inside an anchor restarts capture with the inner href and
\* no text; the next </a> evaluates the inner href and the text since the
\* restart only; a </a> outside an anchor changes nothing; text outside an
\* anchor is kept nowhere, so it is in no candidate's text.
C20_NestedAnchors ==
  [][ fed' # fed =>
        /\ (IsStartA(FedEvent) /\ link_finder.in_a) =>
             /\ link_finder'.in_a
             /\ link_finder'.current_href = AttrGet(FedEvent.attrs, "href", None)
             /\ link_finder'.current_text = <<>>
             /\ link_finder'.links = link_finder.links
        /\ (IsEndA(FedEvent) /\ ~link_finder.in_a) => link_finder' = link_finder
        /\ (FedEvent.kind = "data" /\ ~link_finder.in_a) => link_finder' = link_finder
        /\ (IsEndA(FedEvent) /\ link_finder.in_a) =>
             /\ ~link_finder'.in_a
             /\ link_finder'.links \in
                  { link_finder.links,
                    Append(link_finder.links,
                           <<link_finder.current_href,
                             Strip(Join(link_finder.current_text))>>) }
             /\ LET i == OpeningOf(fed', Len(fed')) IN
                  /\ link_finder.current_href = AttrGet(fed[i].attrs, "href", None)
                  /\ link_finder.current_text = TextBetween(fed', i, Len(fed'))
    ]_vars

\* Text with an intent word, then an anchor with an intent word in its text
\* that is restarted by an anchor with a plain http href, which is closed at
\* once: nothing is emitted.
C20_Witness ==
  /\ fed = <<Data(<<"Unsubscribe">>), StartA(<<"https://l.ex/unsubscribe?id=9">>),
             Data(<<"Unsubscribe">>), StartA(<<"https://l.ex/b">>), EndTag("a")>>
  /\ link_finder.links = <<>>
  /\ ~link_finder.in_a

(***************************************************************************)
(* FormFinder fed one event at a time; a handler that raises ends the feed. *)
(***************************************************************************)
MaxFormEvents == 4

\* The events the form extractor is fed: a form start tag with an action and
\* a method, one whose method has no value, and one with no attribute; inputs with a name and a
\* value, with the same name and another value, with a name and no value
\* attribute, with a name and a value attribute that has no value, with no
\* name, with a name attribute that has no value, and with an empty name;
\* text; and </form>.
FormEvents ==
  { StartTag("form", << <<"action", <<"/confirm2">> >>, <<"method", <<"post">> >> >>),
    StartTag("form", << <<"method", None>> >>),
    StartTag("form", <<>>),
    Input(<<"token">>, <<"abc">>),
    Input(<<"token">>, <<"xyz">>),
    StartTag("input", << <<"name", <<"email">> >> >>),
    Input(<<"token">>, None),
    StartTag("input", << <<"value", <<"abc">> >> >>),
    Input(None, <<"abc">>),
    Input(<<>>, <<"abc">>),
    Data(<<"Confirm">>),
    EndTag("form") }

InitForms ==
  /\ RunIdle
  /\ ScanIdle
  /\ TailIdle
  /\ TopIdle

FeedForm ==
  /\ Len(fed) < MaxFormEvents
  /\ form_finder.fault = ""
  /\ \E e \in FormEvents :
       /\ fed' = Append(fed, e)
       /\ form_finder' = FormFinder_event(form_finder, e)
  /\ UNCHANGED <<run_vars, tail_vars, top_vars, header_value, header_entries, header_result, link_finder>>

NextForms == FeedForm

SpecForms == InitForms /\ [][NextForms]_vars

\* The descriptors the extractor holds: the finished ones and the open one.
Descriptors == form_finder.forms \o form_finder.current_form

\* C19 as stated: after any sequence of events no inputs mapping has a null
\* or empty key and every value in it is a string (the empty string when the
\* value is missing).
C19_Original ==
  \A f \in 1..Len(Descriptors) :
    \A k \in 1..Len(Descriptors[f].inputs) :
      LET name == Descriptors[f].inputs[k][1]
          value == Descriptors[f].inputs[k][2]
      IN /\ name # None
         /\ name # <<>>
         /\ value # None

\* The events whose handlers returned: all that were fed, but the last one
\* when its handler raised.
Handled == IF form_finder.fault = "" THEN fed ELSE SubSeq(fed, 1, Len(fed) - 1)

IsStartForm(e) == e.kind = "start" /\ e.tag = "form"

IsEndForm(e) == e.kind = "end" /\ e.tag = "form"

IsNamedInput(e) ==
  /\ e.kind = "start"
  /\ e.tag = "input"
  /\ \E k \in 1..Len(e.attrs) : e.attrs[k][1] = "name"
  /\ AttrGet(e.attrs, "name", None) \notin {None, <<>>}

\* The position of the <form> that is open after the first j events, 0 when
\* none is: the last <form>, unless a </form> follows it.
OpenFormAt(events, j) ==
  LET starts == { i \in 1..j : IsStartForm(events[i]) } IN
    IF starts = {} THEN 0
    ELSE LET i == CHOOSE i \in starts : \A k \in starts : k <= i IN
           IF \E k \in (i + 1)..j : IsEndForm(events[k]) THEN 0 ELSE i

\* The positions of the </form> tags seen inside a form, in increasing order.
RECURSIVE ClosingsUpTo(_, _)
ClosingsUpTo(events, j) ==
  IF j = 0 THEN <<>>
  ELSE ClosingsUpTo(events, j - 1) \o
       (IF IsEndForm(events[j]) /\ OpenFormAt(events, j - 1) # 0 THEN <<j>> ELSE <<>>)

\* descriptor is the form opened at position i and closed at position j.
DescribesForm(descriptor, events, i, j) ==
  LET named == { k \in (i + 1)..(j - 1) : IsNamedInput(events[k]) }
      nameAt(k) == AttrGet(events[k].attrs, "name", None)
      hasMethod == \E k \in 1..Len(events[i].attrs) : events[i].attrs[k][1] = "method"
  IN /\ descriptor.text = Strip(Join(TextBetween(events, i, j)))
     /\ descriptor.method = IF hasMethod THEN Upper(AttrGet(events[i].attrs, "method", None))
                            ELSE <<"GET">>
     /\ { descriptor.inputs[n][1] : n \in 1..Len(descriptor.inputs) } =
          { nameAt(k) : k \in named }
     /\ \A n, n2 \in 1..Len(descriptor.inputs) :
          descriptor.inputs[n][1] = descriptor.inputs[n2][1] => n = n2
     /\ \A n \in 1..Len(descriptor.inputs) :
          \E k \in named :
            /\ nameAt(k) = descriptor.inputs[n][1]
            /\ \A k2 \in named : nameAt(k2) = nameAt(k) => k2 <= k
            /\ descriptor.inputs[n][2] = AttrGet(events[k].attrs, "value", <<>>)

\* C21: forms holds one descriptor for each </form> seen inside a form, in
\* the order of those closing tags (a form never closed gives none, a </form>
\* outside a form is ignored); each descriptor has the text and the inputs
\* seen between its own <form> and its </form> and the upper-cased method
\* attribute, GET when there is none; between forms the current-form state
\* is clear, and a form that has just been opened has no inputs and no text.
C21_FormsOnClose ==
  LET closings == ClosingsUpTo(Handled, Len(Handled))
      open == OpenFormAt(Handled, Len(Handled))
  IN /\ Len(form_finder.forms) = Len(closings)
     /\ \A n \in 1..Len(closings) :
          DescribesForm(form_finder.forms[n], Handled,
                        OpenFormAt(Handled, closings[n] - 1), closings[n])
     /\ open = 0 <=> form_finder.current_form = <<>>
     /\ open = 0 => form_finder.current_text = <<>>
     /\ (open # 0 /\ open = Len(Handled)) =>
          (form_finder.current_form[1].inputs = <<>> /\ form_finder.current_text = <<>>)

\* A form written with method "post" was opened and closed at once, then a
\* form without attributes was: two descriptors, POST before GET.
C21_Witness ==
  /\ Len(fed) = 4
  /\ IsStartForm(fed[1])
  /\ IsEndForm(fed[2])
  /\ fed[3] = StartTag("form", <<>>)
  /\ IsEndForm(fed[4])
  /\ Len(form_finder.forms) = 2
  /\ form_finder.forms[1].method = <<"POST">>
  /\ form_finder.forms[2].method = <<"GET">>
  /\ form_finder.current_form = <<>>

(***************************************************************************)
(* fasttail.py: run_daemon.  Emails arrive and the clock advances at any   *)
(* moment of the daemon's cycle; every fetch can fail.                     *)
(***************************************************************************)
MaxMail == 3

MaxClock == 2

MaxSessions == 2

\* The first n elements of a list: s[:n].
Take(s, n) == SubSeq(s, 1, IF n < Len(s) THEN n ELSE Len(s))

\* The emails of a set, newest first.
RECURSIVE NewestFirst(_)
NewestFirst(S) ==
  IF S = {} THEN <<>>
  ELSE LET e == CHOOSE e \in S :
                  \A o \in S : o.receivedAt < e.receivedAt
                               \/ (o.receivedAt = e.receivedAt /\ o.id <= e.id)
       IN <<e>> \o NewestFirst(S \ {e})

\* fetch_emails(limit, after): Email/query with the filter receivedAt >= after
\* (no filter when after is not given, written <<>>; a time t is written
\* <<t>>), sorted by receivedAt descending, cut at limit.
fetch_emails(limit, after) ==
  Take(NewestFirst({ e \in inbox : after = <<>> \/ e.receivedAt >= after[1] }), limit)

\* sorted(list, key=receivedAt): a stable sort, oldest first.
RECURSIVE SortedByReceivedAt(_)
SortedByReceivedAt(s) ==
  IF s = <<>> THEN <<>>
  ELSE LET k == CHOOSE k \in 1..Len(s) :
                  /\ \A j \in 1..Len(s) : s[k].receivedAt <= s[j].receivedAt
                  /\ \A j \in 1..(k - 1) : s[j].receivedAt > s[k].receivedAt
       IN <<s[k]>> \o SortedByReceivedAt(SubSeq(s, 1, k - 1) \o SubSeq(s, k + 1, Len(s)))

IdsOf(s) == [k \in 1..Len(s) |-> s[k].id]

\* seed_limit = max(50, backfill)
seed_limit == IF backfill > 50 THEN backfill ELSE 50

InitTail ==
  /\ RunIdle
  /\ ScanIdle
  /\ TopIdle
  /\ clock = 0
  /\ inbox = {}
  /\ tail_pc = "seed"
  /\ backfill \in {0, 1}
  /\ api_info = 1
  /\ mailboxes = 1
  /\ seen_ids = {}
  /\ last_check = <<>>
  /\ emails = <<>>
  /\ logfile = <<>>
  /\ after_seed = {}
  /\ last_event = ""

\* The server receives an email.
Arrive ==
  /\ tail_pc # "raised"
  /\ Cardinality(inbox) < MaxMail
  /\ LET id == Cardinality(inbox) + 1 IN
       /\ inbox' = inbox \cup {[id |-> id, receivedAt |-> clock]}
       /\ after_seed' = IF tail_pc = "seed" THEN after_seed ELSE after_seed \cup {id}
  /\ UNCHANGED <<run_vars, scan_vars, top_vars, clock, tail_pc, backfill, api_info, mailboxes,
                 seen_ids, last_check, emails, logfile, last_event>>

\* A second passes.
Tick ==
  /\ tail_pc # "raised"
  /\ clock < MaxClock
  /\ clock' = clock + 1
  /\ UNCHANGED <<run_vars, scan_vars, top_vars, inbox, tail_pc, backfill, api_info, mailboxes,
                 seen_ids, last_check, emails, logfile, after_seed, last_event>>

\* The seeding fetch and the loop that fills seen_ids; a failure of the fetch
\* leaves run_daemon.
Seed ==
  /\ tail_pc = "seed"
  /\ \E ok \in BOOLEAN :
       IF ok
       THEN /\ emails' = fetch_emails(seed_limit, <<>>)
            /\ seen_ids' = { emails'[k].id : k \in 1..Len(emails') }
            /\ tail_pc' = "stamp_seed"
            /\ last_event' = "seed"
       ELSE /\ tail_pc' = "raised"
            /\ last_event' = "seed_failed"
            /\ UNCHANGED <<emails, seen_ids>>
  /\ UNCHANGED <<run_vars, scan_vars, top_vars, clock, inbox, backfill, api_info, mailboxes,
                 last_check, logfile, after_seed>>

\* last_check = datetime.now(timezone.utc) after the seeding fetch
StampSeed ==
  /\ tail_pc = "stamp_seed"
  /\ last_check' = <<clock>>
  /\ tail_pc' = "backfill"
  /\ last_event' = "stamp"
  /\ UNCHANGED <<run_vars, scan_vars, top_vars, clock, inbox, backfill, api_info, mailboxes,
                 seen_ids, emails, logfile, after_seed>>

\* The backfill: the first backfill emails of the seeding fetch, oldest first.
Backfill ==
  /\ tail_pc = "backfill"
  /\ logfile' = logfile \o IdsOf(SortedByReceivedAt(Take(emails, backfill)))
  /\ tail_pc' = "sleep"
  /\ last_event' = "backfill"
  /\ UNCHANGED <<run_vars, scan_vars, top_vars, clock, inbox, backfill, api_info, mailboxes,
                 seen_ids, last_check, emails, after_seed>>

\* The sleep is over and the fetch of the poll succeeds.
PollOK ==
  /\ tail_pc = "sleep"
  /\ emails' = fetch_emails(50, last_check)
  /\ tail_pc' = "write"
  /\ last_event' = "poll_ok"
  /\ UNCHANGED <<run_vars, scan_vars, top_vars, clock, inbox, backfill, api_info, mailboxes,
                 seen_ids, last_check, logfile, after_seed>>

\* Mutant: last_check is set before the fetch, so a failed poll moves it.
PollFail_Stamps ==
  /\ tail_pc = "sleep"
  /\ \E e \in {"poll_401", "poll_http", "poll_exc"} :
       /\ e = "poll_401" => api_info < MaxSessions
       /\ last_event' = e
       /\ tail_pc' = IF e = "poll_401" THEN "refresh" ELSE "sleep"
  /\ last_check' = <<clock>>
  /\ UNCHANGED <<run_vars, scan_vars, top_vars, clock, inbox, backfill, api_info, mailboxes,
                 seen_ids, emails, logfile, after_seed>>

\* The sleep is over and the fetch of the poll raises: an HTTPError with
\* status 401 or 403, another HTTPError, or another exception.
PollFail ==
  /\ tail_pc = "sleep"
  /\ \E e \in {"poll_401", "poll_http", "poll_exc"} :
       /\ e = "poll_401" => api_info < MaxSessions
       /\ last_event' = e
       /\ tail_pc' = IF e = "poll_401" THEN "refresh" ELSE "sleep"
  /\ UNCHANGED <<run_vars, scan_vars, top_vars, clock, inbox, backfill, api_info, mailboxes,
                 seen_ids, last_check, emails, logfile, after_seed>>

\* Mutant: every email of the fetch counts as new.
new_emails_Unfiltered == emails

\* new_emails = [e for e in emails if e["id"] not in seen_ids]
new_emails == SelectSeq(emails, LAMBDA e : e.id \notin seen_ids)

\* The loop that writes the new emails, oldest first.
Write ==
  /\ tail_pc = "write"
  /\ seen_ids' = seen_ids \cup { new_emails[k].id : k \in 1..Len(new_emails) }
  /\ logfile' = logfile \o IdsOf(SortedByReceivedAt(new_emails))
  /\ tail_pc' = "stamp"
  /\ last_event' = "write"
  /\ UNCHANGED <<run_vars, scan_vars, top_vars, clock, inbox, backfill, api_info, mailboxes,
                 last_check, emails, after_seed>>

\* last_check = datetime.now(timezone.utc) at the end of a successful poll
Stamp ==
  /\ tail_pc = "stamp"
  /\ last_check' = <<clock>>
  /\ tail_pc' = "sleep"
  /\ last_event' = "stamp"
  /\ UNCHANGED <<run_vars, scan_vars, top_vars, clock, inbox, backfill, api_info, mailboxes,
                 seen_ids, emails, logfile, after_seed>>

\* The refresh after a 401 or 403: get_api_info, then fetch_mailboxes; either
\* can raise, and the loop goes on.
Refresh ==
  /\ tail_pc = "refresh"
  /\ \E e \in {"refresh_ok", "get_api_info_failed", "fetch_mailboxes_failed"} :
       /\ last_event' = e
       /\ api_info' = IF e = "get_api_info_failed" THEN api_info ELSE api_info + 1
       /\ mailboxes' = IF e = "refresh_ok" THEN api_info + 1 ELSE mailboxes
  /\ tail_pc' = "sleep"
  /\ UNCHANGED <<run_vars, scan_vars, top_vars, clock, inbox, backfill, seen_ids, last_check,
                 emails, logfile, after_seed>>

NextTail ==
  \/ Arrive
  \/ Tick
  \/ Seed
  \/ StampSeed
  \/ Backfill
  \/ PollOK
  \/ PollFail
  \/ Write
  \/ Stamp
  \/ Refresh

SpecTail == InitTail /\ [][NextTail]_vars

\* The daemon's own steps are taken, and polls succeed again and again.
SpecTailFair ==
  /\ SpecTail
  /\ WF_vars(Seed)
  /\ WF_vars(StampSeed)
  /\ WF_vars(Backfill)
  /\ SF_vars(PollOK)
  /\ WF_vars(Write)
  /\ WF_vars(Stamp)
  /\ WF_vars(Refresh)

Logged(id) == \E k \in 1..Len(logfile) : logfile[k] = id

\* C22: no id is in the log twice; the ids of the seeding fetch are all in
\* seen_ids before the loop starts, and once the loop runs every id in the
\* log is in seen_ids, so no poll writes it again, whatever polls succeed or
\* fail and whatever the fetches return again.
C22_LoggedOnce ==
  /\ \A i, j \in 1..Len(logfile) : logfile[i] = logfile[j] => i = j
  /\ tail_pc \in {"stamp_seed", "backfill"} =>
       \A k \in 1..Len(emails) : emails[k].id \in seen_ids
  /\ tail_pc \in {"sleep", "write", "stamp", "refresh"} =>
       \A k \in 1..Len(logfile) : logfile[k] \in seen_ids

\* Email 1 was written as backfill; a poll then returned it again together
\* with email 2, received after the seeding fetch, and wrote email 2 only.
C22_Witness ==
  /\ backfill = 1
  /\ tail_pc = "stamp"
  /\ after_seed = {2}
  /\ { emails[k].id : k \in 1..Len(emails) } = {1, 2}
  /\ logfile = <<1, 2>>

\* C23 as stated: every email received after the seeding fetch is eventually
\* written to the log, at whatever moment of the poll cycle it arrives.
C23_Original == \A id \in 1..MaxMail : (id \in after_seed) ~> Logged(id)

\* A step in which the fetch of a poll fails.
PollFailed ==
  /\ tail_pc = "sleep"
  /\ tail_pc' \in {"sleep", "refresh", "raised"}
  /\ last_event' \in {"poll_401", "poll_http", "poll_exc"}
  /\ <<clock, inbox>>' = <<clock, inbox>>

\* A step in which the session refresh fails.
RefreshFailed ==
  /\ tail_pc = "refresh"
  /\ tail_pc' # "refresh"
  /\ last_event' \in {"get_api_info_failed", "fetch_mailboxes_failed"}

\* C24 as stated: a poll whose fetch fails does not end the loop and leaves
\* seen_ids, last_check and the log as they were; a 401 or 403 leads to the
\* refresh; a refresh that fails leaves the loop running with the previous
\* api_url, account_id, headers and mailboxes.
C24_Original ==
  [][ /\ PollFailed =>
           /\ tail_pc' # "raised"
           /\ <<seen_ids, last_check, logfile>>' = <<seen_ids, last_check, logfile>>
           /\ last_event' = "poll_401" <=> tail_pc' = "refresh"
      /\ RefreshFailed =>
           /\ tail_pc' = "sleep"
           /\ <<api_info, mailboxes>>' = <<api_info, mailboxes>>
    ]_vars

\* C24, amended: as above for the failed poll; a refresh that fails in
\* get_api_info leaves api_url, account_id, headers and mailboxes as they
\* were, and one that fails in fetch_mailboxes leaves the loop running with
\* the new api_url, account_id and headers and the previous mailboxes.
C24_FailedPollKeepsState ==
  [][ /\ PollFailed =>
           /\ tail_pc' # "raised"
           /\ <<seen_ids, last_check, logfile>>' = <<seen_ids, last_check, logfile>>
           /\ last_event' = "poll_401" <=> tail_pc' = "refresh"
      /\ RefreshFailed =>
           /\ tail_pc' = "sleep"
           /\ mailboxes' = mailboxes
           /\ last_event' = "get_api_info_failed" => api_info' = api_info
           /\ last_event' = "fetch_mailboxes_failed" => api_info' = api_info + 1
    ]_vars

\* A poll was answered 401 after the clock had moved past last_check, and the
\* refresh failed in fetch_mailboxes: the daemon sleeps again with the new
\* session and the mailbox names of the old one.
C24_Witness ==
  /\ tail_pc = "sleep"
  /\ last_event = "fetch_mailboxes_failed"
  /\ api_info = 2
  /\ mailboxes = 1
  /\ last_check # <<clock>>

(***************************************************************************)
(* top_senders.py: collect_emails over a fixed list of emails on the       *)
(* server; every fetch and every session refresh can fail.                 *)
(***************************************************************************)
MaxServerEmails == 101

BATCH_SIZE == 50

MAX_RETRIES == 5

\* The email with id n: every second one has no sender.
ServerEmail(n) ==
  [id |-> n,
   from |-> IF n % 2 = 0 THEN <<>> ELSE << [email |-> <<"Sender", ToString(n)>>] >>,
   to |-> << [email |-> <<"Rcpt", ToString(n)>>] >>]

\* str.lower() on the addresses of the model.
LowerAddr(addr) ==
  [k \in 1..Len(addr) |->
     CASE addr[k] = "Sender" -> "sender"
       [] addr[k] = "Rcpt" -> "rcpt"
       [] OTHER -> addr[k]]

\* extract_addr(email, field), the field being given by its value
extract_addr(addrs) == IF addrs = <<>> THEN <<"unknown">> ELSE LowerAddr(addrs[1].email)

\* The record collect_emails appends for an email.
RecordOf(e) == [from |-> extract_addr(e.from), to |-> extract_addr(e.to)]

\* fetch_email_batch: the emails from position on, at most BATCH_SIZE, and
\* the total when it was asked for and the server gives it.
fetch_email_batch(pos, calculate_total) ==
  [emails |-> SubSeq(server, pos + 1,
                     IF pos + BATCH_SIZE < Len(server) THEN pos + BATCH_SIZE ELSE Len(server)),
   total |-> IF calculate_total /\ gives_total THEN <<Len(server)>> ELSE <<>>]

\* Mutant: the counter is not reset when a fetch succeeds.
retries_after_success_Kept == retries

\* retries = 0  # reset on success
retries_after_success == 0

\* Mutant: position advances by a full batch.
position_after_FullBatch(pos, batch) == pos + BATCH_SIZE

\* position += len(emails)
position_after(pos, batch) == pos + Len(batch)

InitTop ==
  /\ RunIdle
  /\ ScanIdle
  /\ TailIdle
  /\ \E n \in 0..MaxServerEmails : server = [k \in 1..n |-> ServerEmail(n + 1 - k)]
  /\ gives_total \in BOOLEAN
  /\ top_pc = "loop"
  /\ records = <<>>
  /\ position = 0
  /\ total = <<>>
  /\ retries = 0
  /\ top_session = 1
  /\ failures = 0
  /\ exit_cause = ""

\* An iteration of the loop in which the fetch succeeds.
FetchOK ==
  /\ top_pc = "loop"
  /\ LET need_total == total = <<>>
         got == fetch_email_batch(position, need_total)
         new_total == IF need_total /\ got.total # <<>> THEN got.total ELSE total
         new_position == position_after(position, got.emails)
     IN /\ retries' = retries_after_success
        /\ failures' = 0
        /\ total' = new_total
        /\ IF got.emails = <<>>
           THEN /\ top_pc' = "returned"
                /\ UNCHANGED <<records, position>>
           ELSE /\ records' = records \o [k \in 1..Len(got.emails) |-> RecordOf(got.emails[k])]
                /\ position' = new_position
                /\ top_pc' = IF new_total # <<>> /\ new_total[1] # 0
                                /\ new_position >= new_total[1]
                             THEN "returned" ELSE "loop"
  /\ exit_cause' = IF top_pc' = "returned" THEN "returned" ELSE exit_cause
  /\ UNCHANGED <<run_vars, scan_vars, tail_vars, server, gives_total, top_session>>

\* An iteration in which the fetch raises ConnectionError or Timeout, or an
\* HTTPError with status 401 or 403: the counter, the re-raise, and otherwise
\* the sleep and get_api_info, which can raise in its turn.
FetchRetried ==
  /\ top_pc = "loop"
  /\ failures' = failures + 1
  /\ retries' = retries + 1
  /\ \E kind \in {"ConnectionError", "Timeout", "HTTPError 401"}, refreshed \in BOOLEAN :
       IF retries' > MAX_RETRIES
       THEN /\ top_pc' = "raised"
            /\ exit_cause' = "reraised"
            /\ UNCHANGED top_session
       ELSE IF refreshed
       THEN /\ top_pc' = "loop"
            /\ top_session' = top_session + 1
            /\ UNCHANGED exit_cause
       ELSE /\ top_pc' = "raised"
            /\ exit_cause' = "get_api_info raised"
            /\ UNCHANGED top_session
  /\ UNCHANGED <<run_vars, scan_vars, tail_vars, server, gives_total, records, position, total>>

\* An iteration in which the fetch raises another HTTPError, or an exception
\* that no clause catches.
FetchRaised ==
  /\ top_pc = "loop"
  /\ failures' = failures + 1
  /\ top_pc' = "raised"
  /\ \E kind \in {"HTTPError", "RuntimeError"} : exit_cause' = kind
  /\ UNCHANGED <<run_vars, scan_vars, tail_vars, server, gives_total, records, position, total,
                 retries, top_session>>

NextTop ==
  \/ FetchOK
  \/ FetchRetried
  \/ FetchRaised

SpecTop == InitTop /\ [][NextTop]_vars

\* The loop keeps running as long as it has not returned or raised.
SpecTopFair == SpecTop /\ WF_vars(NextTop)

\* C25: retries is the number of fetches that failed in a row: a fetch that
\* succeeds resets it to 0, a connection error, a timeout or a 401/403 adds
\* one, and the exception of the fetch is re-raised exactly when retries has
\* passed MAX_RETRIES, which is at the sixth failure in a row; another HTTP
\* error is raised at once and counts nothing; a failed fetch leaves records
\* and position as they were.
C25_RetryCounter ==
  /\ [](/\ exit_cause \notin {"HTTPError", "RuntimeError"} => retries = failures
        /\ retries <= MAX_RETRIES + 1
        /\ exit_cause = "reraised" <=> retries > MAX_RETRIES
        /\ exit_cause = "reraised" => (top_pc = "raised" /\ failures = 6)
        /\ exit_cause = "HTTPError" => top_pc = "raised")
  /\ [][ /\ failures' = 0 => retries' = 0
         /\ failures' > failures =>
              /\ <<records, position>>' = <<records, position>>
              /\ exit_cause' = "HTTPError" => retries' = retries
              /\ exit_cause' \notin {"HTTPError", "RuntimeError"} => retries' = retries + 1
     ]_vars

\* One fetch failed and the next succeeded with a first batch; then six
\* fetches in a row failed, each of the first five followed by a refresh of
\* the session, and the sixth exception was re-raised.
C25_Witness ==
  /\ top_pc = "raised"
  /\ exit_cause = "reraised"
  /\ retries = 6
  /\ position = 50
  /\ top_session = 7

\* C26: collect_emails ends, by returning or by raising, whatever fetches
\* and refreshes fail; position is the number of records throughout; and when
\* it returns, records holds one entry for each email of the server, in the
\* order of the fetch, none twice and none missing.
C26_CollectsAll ==
  /\ [](/\ position = Len(records)
        /\ top_pc = "returned" =>
             /\ Len(records) = Len(server)
             /\ \A k \in 1..Len(server) :
                  /\ records[k].to = <<"rcpt", ToString(server[k].id)>>
                  /\ records[k].from = IF server[k].id % 2 = 0 THEN <<"unknown">>
                                       ELSE <<"sender", ToString(server[k].id)>>)
  /\ <>(top_pc \in {"returned", "raised"})

\* A server that gives no total: three batches of 50, 50 and 1 emails and an
\* empty fourth one were fetched, with failed fetches and refreshes between.
C26_Witness ==
  /\ top_pc = "returned"
  /\ ~gives_total
  /\ Len(server) = 101
  /\ Len(records) = 101
  /\ top_session = 4

====
